---- MODULE Spec2Model ----
(***************************************************************************)
(* JointSet of rapier (src/dynamics/joint/joint_set.rs): an arena mapping  *)
(* JointHandle -> edge index, an interaction graph whose nodes are rigid   *)
(* body handles and whose edges are joints, and the cached                 *)
(* joint_graph_index that insert / remove_rigid_body write back into the   *)
(* bodies.  Indices are 0-based as in the source; a TLA+ sequence position *)
(* is index + 1.  Option<T> is a sequence: None == <<>>, Some(x) == <<x>>. *)
(* The joint parameters (Joint::params) are opaque to every operation of   *)
(* the joint set and are left out of the joint payload.                    *)
(***************************************************************************)
EXTENDS Integers, Sequences, FiniteSets, TLC

\* ---------------------------------------------------------------- bounds
\* Rigid bodies of the body set, and joints ever inserted into the joint set.
NumBodies == 3
MaxInserts == 3
\* Active islands the island manager reports (islands.num_islands()).
NumIslands == 2

\* ------------------------------------------------------------- constants
\* crate::INVALID_U32 is u32::MAX.  TLC integers are 32-bit signed, so the
\* sentinel is the largest integer TLC has: above every index and every
\* generation the arena and the graph can hold.
INVALID_U32 == 2147483647

Bodies == 1..NumBodies

VARIABLES joint_ids, nodes, edges, bodies, woken, last, ret, removed

\* The components of the bodies that select_active_interactions reads
\* (RigidBodyType, RigidBodyActivation.sleeping, RigidBodyIds.active_island_id)
\* and its out argument, one bucket of edge indices per island.
VARIABLES rb_type, sleeping, active_island_id, out

selvars == <<rb_type, sleeping, active_island_id, out>>

vars == <<joint_ids, nodes, edges, bodies, woken, last, ret, removed,
          rb_type, sleeping, active_island_id, out>>

None == <<>>
Some(x) == <<x>>

\* ------------------------------------------------------------ JointHandle
JointHandle(i, g) == [index |-> i, generation |-> g]

JointHandleInvalid == JointHandle(INVALID_U32, INVALID_U32)

\* The handles a caller may present: every (slot, generation) pair the
\* bounded arena can ever produce, and the invalid sentinel.
Handles ==
  {JointHandle(i, g) : i \in 0..(MaxInserts - 1), g \in 0..(MaxInserts - 1)}
    \cup {JointHandleInvalid}

\* ------------------------------------------------- generational slot arena
\* A slot is Occupied(generation, value) or Free; a free slot keeps the
\* generation its next occupant will carry.
ArenaNew == <<>>

ArenaContains(a, h) ==
  /\ h.index < Len(a)
  /\ a[h.index + 1].occupied
  /\ a[h.index + 1].generation = h.generation

ArenaGet(a, h) ==
  IF ArenaContains(a, h) THEN Some(a[h.index + 1].value) ELSE None

\* Slots insert may take: a freed slot if one exists, else the next new slot.
ArenaFreeSlots(a) == {i \in 0..(Len(a) - 1) : ~a[i + 1].occupied}

ArenaInsertSlots(a) ==
  IF ArenaFreeSlots(a) # {} THEN ArenaFreeSlots(a) ELSE {Len(a)}

ArenaLen(a) == Cardinality({i \in 1..Len(a) : a[i].occupied})

ArenaSlotGeneration(a, i) == IF i < Len(a) THEN a[i + 1].generation ELSE 0

\* insert(value) into slot i (one of ArenaInsertSlots): the new arena.
ArenaInsert(a, i, v) ==
  LET slot == [occupied |-> TRUE, generation |-> ArenaSlotGeneration(a, i),
               value |-> v]
  IN IF i < Len(a) THEN [a EXCEPT ![i + 1] = slot] ELSE Append(a, slot)

\* remove(handle): frees the slot and bumps its generation (u32, wrapping).
ArenaRemove(a, h) ==
  IF ArenaContains(a, h)
  THEN [a EXCEPT ![h.index + 1] =
          [occupied |-> FALSE,
           generation |-> IF h.generation = INVALID_U32
                          THEN 0 ELSE h.generation + 1,
           value |-> 0]]
  ELSE a

\* IndexMut: arena[handle] = v
ArenaSet(a, h, v) == [a EXCEPT ![h.index + 1].value = v]

\* ------------------------------------------------------ interaction graph
is_graph_index_valid(index) == index # INVALID_U32

SwapRemove(s, i) ==
  IF i + 1 = Len(s)
  THEN SubSeq(s, 1, Len(s) - 1)
  ELSE [k \in 1..(Len(s) - 1) |-> IF k = i + 1 THEN s[Len(s)] ELSE s[k]]

edge_weight(es, id) == IF id < Len(es) THEN Some(es[id + 1].weight) ELSE None

edge_endpoints(es, id) == IF id < Len(es) THEN Some(es[id + 1].node) ELSE None

node_weight(ns, id) == IF id < Len(ns) THEN Some(ns[id + 1]) ELSE None

add_node(ns, payload) == Append(ns, payload)

add_edge(es, a, b, weight) == Append(es, [node |-> <<a, b>>, weight |-> weight])

\* remove_edge: swap-with-last-then-pop.
remove_edge(es, id) == IF id < Len(es) THEN SwapRemove(es, id) ELSE es

\* The edges incident to node id, each once (a self-loop is one edge).
IncidentEdges(es, id) ==
  {e \in 1..Len(es) : es[e].node[1] = id \/ es[e].node[2] = id}

\* interactions_with(id): (payload of endpoint a, payload of endpoint b,
\* handle of the joint) for every incident edge.
interactions_with(ns, es, id) ==
  {[h1 |-> ns[es[e].node[1] + 1], h2 |-> ns[es[e].node[2] + 1],
    handle |-> es[e].weight.handle] : e \in IncidentEdges(es, id)}

\* Graph::remove_node: swap-with-last-then-pop of the node array; the edges
\* of the relocated (previously last) node follow it to its new position.
RemoveNodeNodes(ns, id) == IF id < Len(ns) THEN SwapRemove(ns, id) ELSE ns

Renumber(n, id, lastId) == IF n = lastId THEN id ELSE n

RemoveNodeEdges(ns, es, id) ==
  IF id < Len(ns)
  THEN [e \in 1..Len(es) |->
          [es[e] EXCEPT !.node = <<Renumber(es[e].node[1], id, Len(ns) - 1),
                                   Renumber(es[e].node[2], id, Len(ns) - 1)>>]]
  ELSE es

\* InteractionGraph::remove_node returns the payload now stored at id.
RemoveNodeOther(ns, id) == node_weight(RemoveNodeNodes(ns, id), id)

\* ---------------------------------------------------------------- Joint
\* Mutant: the joint is built with the invalid handle, not the allocated one.
Joint_InvalidHandle(body1, body2, handle) ==
  [body1 |-> body1, body2 |-> body2, handle |-> JointHandleInvalid]

Joint(body1, body2, handle) ==
  [body1 |-> body1, body2 |-> body2, handle |-> handle]

\* ------------------------------------------------------ JointSet queries
\* Mutant: len counts the slots of the arena, freed ones included.
len_ArenaSlots == Len(joint_ids)

len == Len(edges)

is_empty == Len(edges) = 0

\* Mutant: the slot is looked up without comparing generations.
contains_IgnoreGeneration(handle) ==
  /\ handle.index < Len(joint_ids)
  /\ joint_ids[handle.index + 1].occupied

contains(handle) == ArenaContains(joint_ids, handle)

\* Mutant: get resolves the slot as get_unknown_gen does.
get_IgnoreGeneration(handle) ==
  IF handle.index < Len(joint_ids) /\ joint_ids[handle.index + 1].occupied
  THEN edge_weight(edges, joint_ids[handle.index + 1].value)
  ELSE None

get(handle) ==
  IF ArenaGet(joint_ids, handle) = None
  THEN None
  ELSE edge_weight(edges, ArenaGet(joint_ids, handle)[1])

get_mut(handle) == get(handle)

\* iter(): (handle, joint) of every edge, in edge order.
iter == [k \in 1..Len(edges) |-> <<edges[k].weight.handle, edges[k].weight>>]

\* ------------------------------------------------------------------ Init
\* The caller's out vector as an earlier step left it: one bucket more than
\* there are islands now, each still holding an edge index.
StaleOut == [k \in 1..(NumIslands + 1) |-> <<0>>]

NoCall ==
  [op |-> "new", handle |-> JointHandleInvalid, wake_up |-> FALSE,
   body1 |-> 0, body2 |-> 0, deleted_id |-> INVALID_U32]

Init ==
  /\ joint_ids = ArenaNew
  /\ nodes = <<>>
  /\ edges = <<>>
  /\ bodies = [b \in Bodies |->
                 [deleted |-> FALSE, joint_graph_index |-> INVALID_U32]]
  /\ woken = <<>>
  /\ last = NoCall
  /\ ret = None
  /\ removed = {}
  /\ rb_type = [b \in Bodies |-> "Dynamic"]
  /\ sleeping = [b \in Bodies |-> FALSE]
  /\ active_island_id = [b \in Bodies |-> 0]
  /\ out = StaleOut

\* ---------------------------------------------------------------- insert
\* Mutant: the index of a fresh node is used whatever the cached index is.
InsertGraphIndex_Fresh(ns, cached) == Len(ns)

\* The graph index insert uses for a body: the cached one if valid, else
\* the index of the node that add_node appends to ns.
InsertGraphIndex(ns, cached) ==
  IF is_graph_index_valid(cached) THEN cached ELSE Len(ns)

\* Mutant: a node is added for the body whatever its cached index is.
InsertNodes_Always(ns, cached, body) == add_node(ns, body)

InsertNodes(ns, cached, body) ==
  IF is_graph_index_valid(cached) THEN ns ELSE add_node(ns, body)

Insert(body1, body2, slot) ==
  LET handle == JointHandle(slot, ArenaSlotGeneration(joint_ids, slot))
      ids0 == ArenaInsert(joint_ids, slot, 0)
      joint == Joint(body1, body2, handle)
      cached1 == bodies[body1].joint_graph_index
      cached2 == bodies[body2].joint_graph_index
      graph_index1 == InsertGraphIndex(nodes, cached1)
      nodes1 == InsertNodes(nodes, cached1, body1)
      bodies1 == [bodies EXCEPT ![body1].joint_graph_index = graph_index1]
      graph_index2 == InsertGraphIndex(nodes1, cached2)
      nodes2 == InsertNodes(nodes1, cached2, body2)
      bodies2 == [bodies1 EXCEPT ![body2].joint_graph_index = graph_index2]
  IN /\ ~bodies[body1].deleted
     /\ ~bodies[body2].deleted
     /\ ArenaLen(joint_ids) + Cardinality(removed) < MaxInserts
     /\ slot \in ArenaInsertSlots(joint_ids)
     /\ nodes' = nodes2
     /\ bodies' = bodies2
     /\ edges' = add_edge(edges, graph_index1, graph_index2, joint)
     /\ joint_ids' = ArenaSet(ids0, handle, Len(edges))
     /\ woken' = <<>>
     /\ ret' = Some(handle)
     /\ last' = [NoCall EXCEPT !.op = "insert", !.handle = handle,
                               !.body1 = body1, !.body2 = body2]
     /\ UNCHANGED removed

\* ---------------------------------------------------------------- remove
\* Mutant: the arena entry of the relocated edge is not rewritten.
RepairRelocated_Skip(ids, es, id) == ids

\* Update the id of the edge which took the place of the deleted one.
RepairRelocated(ids, es, id) ==
  IF edge_weight(es, id) = None
  THEN ids
  ELSE ArenaSet(ids, edge_weight(es, id)[1].handle, id)

\* wake_up on the payload of a node, if the node exists.
WakeNode(log, ns, n) ==
  IF node_weight(ns, n) = None THEN log ELSE Append(log, node_weight(ns, n)[1])

\* Mutant: the handle is looked up but its slot is not freed.
RemoveSlot_Keep(ids, handle) == ids

\* let id = self.joint_ids.remove(handle.0)?: the arena after the call.
RemoveSlot(ids, handle) == ArenaRemove(ids, handle)

\* What remove(handle) returns in the current state.
remove_result(handle) ==
  IF ArenaGet(joint_ids, handle) = None
  THEN None
  ELSE IF edge_endpoints(edges, ArenaGet(joint_ids, handle)[1]) = None
  THEN None
  ELSE edge_weight(edges, ArenaGet(joint_ids, handle)[1])

\* Mutant: only the first endpoint is woken.
RemoveWoken_FirstOnly(id, wake_up) ==
  IF wake_up
  THEN WakeNode(<<>>, nodes, edge_endpoints(edges, id)[1][1])
  ELSE <<>>

RemoveWoken(id, wake_up) ==
  IF wake_up
  THEN WakeNode(WakeNode(<<>>, nodes, edge_endpoints(edges, id)[1][1]),
                nodes, edge_endpoints(edges, id)[1][2])
  ELSE <<>>

Remove(handle, wake_up) ==
  LET found == ArenaGet(joint_ids, handle)
      ids0 == RemoveSlot(joint_ids, handle)
      call == [NoCall EXCEPT !.op = "remove", !.handle = handle,
                             !.wake_up = wake_up]
  IN /\ last' = call
     /\ ret' = remove_result(handle)
     /\ IF found = None
        THEN \* self.joint_ids.remove(handle.0)? returned None
             /\ woken' = <<>>
             /\ UNCHANGED <<joint_ids, nodes, edges, bodies, removed>>
        ELSE IF edge_endpoints(edges, found[1]) = None
        THEN \* edge_endpoints(id)? returned None: the slot is already freed
             /\ joint_ids' = ids0
             /\ woken' = <<>>
             /\ removed' = removed \cup {handle}
             /\ UNCHANGED <<nodes, edges, bodies>>
        ELSE /\ woken' = RemoveWoken(found[1], wake_up)
             /\ edges' = remove_edge(edges, found[1])
             /\ joint_ids' = RepairRelocated(ids0, remove_edge(edges, found[1]),
                                             found[1])
             /\ removed' = removed \cup {handle}
             /\ UNCHANGED <<nodes, bodies>>

\* ----------------------------------------------------- remove_rigid_body
\* Mutant: the cascade does not repair the arena entry of the relocated edge.
CascadeStep_NoRepair(st, item) ==
  [ids |-> ArenaRemove(st.ids, item.handle),
   es |-> remove_edge(st.es, ArenaGet(st.ids, item.handle)[1]),
   log |-> Append(Append(st.log, item.h1), item.h2)]

\* Mutant: the cascade wakes the deleted body's side only.
CascadeStep_WakeOne(st, item) ==
  [ids |-> RepairRelocated(ArenaRemove(st.ids, item.handle),
                           remove_edge(st.es, ArenaGet(st.ids, item.handle)[1]),
                           ArenaGet(st.ids, item.handle)[1]),
   es |-> remove_edge(st.es, ArenaGet(st.ids, item.handle)[1]),
   log |-> Append(st.log, item.h1)]

\* Mutant: the last edge is popped instead of the edge of the handle.
CascadeStep_PopLast(st, item) ==
  [ids |-> ArenaRemove(st.ids, item.handle),
   es |-> SubSeq(st.es, 1, Len(st.es) - 1),
   log |-> Append(Append(st.log, item.h1), item.h2)]

\* One iteration of the loop over to_delete, on st = [ids, es, log].
CascadeStep(st, item) ==
  LET to_delete_edge_id == ArenaGet(st.ids, item.handle)[1]
      es1 == remove_edge(st.es, to_delete_edge_id)
  IN [ids |-> RepairRelocated(ArenaRemove(st.ids, item.handle), es1,
                              to_delete_edge_id),
      es |-> es1,
      log |-> Append(Append(st.log, item.h1), item.h2)]

\* Mutant: only the first of the collected joints is deleted.
CascadeLoop_FirstOnly(st, to_delete) ==
  IF to_delete = <<>> THEN st ELSE CascadeStep(st, Head(to_delete))

RECURSIVE CascadeLoop(_, _)
CascadeLoop(st, to_delete) ==
  IF to_delete = <<>>
  THEN st
  ELSE CascadeLoop(CascadeStep(st, Head(to_delete)), Tail(to_delete))

\* The orders in which the incidence enumeration may list a set of items.
RECURSIVE Orders(_)
Orders(S) ==
  IF S = {}
  THEN {<<>>}
  ELSE UNION {{<<x>> \o o : o \in Orders(S \ {x})} : x \in S}

\* Mutant: the relocated node's body keeps its old cached index.
WriteBackRelocated_Skip(bodies0, other, deleted_id) == bodies0

\* One rigid-body joint graph index may have been invalidated by remove_node:
\* the body of the relocated node, if it is still in the body set, gets the
\* node's new index.
WriteBackRelocated(bodies0, other, deleted_id) ==
  IF other # None /\ ~bodies0[other[1]].deleted
  THEN [bodies0 EXCEPT ![other[1]].joint_graph_index = deleted_id]
  ELSE bodies0

\* Mutant: no validity test, and the sentinel wraps around to node 0.
RemoveRigidBodyCall_SentinelAsZero(deleted_id, to_delete, bodies0) ==
  LET id == IF is_graph_index_valid(deleted_id) THEN deleted_id ELSE 0
      st == CascadeLoop([ids |-> joint_ids, es |-> edges, log |-> <<>>],
                        to_delete)
      other == RemoveNodeOther(nodes, id)
  IN /\ joint_ids' = st.ids
     /\ woken' = st.log
     /\ nodes' = RemoveNodeNodes(nodes, id)
     /\ edges' = RemoveNodeEdges(nodes, st.es, id)
     /\ removed' = removed \cup {to_delete[k].handle : k \in 1..Len(to_delete)}
     /\ bodies' = WriteBackRelocated(bodies0, other, id)

\* remove_rigid_body(deleted_id) proper, from the current state with the
\* incident joints enumerated in the order to_delete.
RemoveRigidBodyCall(deleted_id, to_delete, bodies0) ==
  IF is_graph_index_valid(deleted_id)
  THEN LET st == CascadeLoop([ids |-> joint_ids, es |-> edges, log |-> <<>>],
                             to_delete)
           other == RemoveNodeOther(nodes, deleted_id)
       IN /\ joint_ids' = st.ids
          /\ woken' = st.log
          /\ nodes' = RemoveNodeNodes(nodes, deleted_id)
          /\ edges' = RemoveNodeEdges(nodes, st.es, deleted_id)
          /\ removed' = removed \cup {to_delete[k].handle : k \in 1..Len(to_delete)}
          /\ bodies' = WriteBackRelocated(bodies0, other, deleted_id)
  ELSE /\ bodies' = bodies0
       /\ woken' = <<>>
       /\ UNCHANGED <<joint_ids, nodes, edges, removed>>

\* The body set deletes body and hands its cached joint_graph_index to
\* remove_rigid_body.
RemoveRigidBody(body) ==
  LET deleted_id == bodies[body].joint_graph_index
      bodies0 == [bodies EXCEPT ![body].deleted = TRUE]
  IN /\ ~bodies[body].deleted
     /\ last' = [NoCall EXCEPT !.op = "remove_rigid_body", !.body1 = body,
                               !.deleted_id = deleted_id]
     /\ ret' = None
     /\ \E to_delete \in
            IF is_graph_index_valid(deleted_id)
            THEN Orders(interactions_with(nodes, edges, deleted_id))
            ELSE {<<>>} :
          RemoveRigidBodyCall(deleted_id, to_delete, bodies0)

\* ----------------------------------------------- island manager, wake_up
is_dynamic(t) == t = "Dynamic"

\* IslandManager::wake_up marks the body active.
WakeUpBody(sl, body) == [sl EXCEPT ![body] = FALSE]

RECURSIVE WakeUpAll(_, _)
WakeUpAll(sl, log) ==
  IF log = <<>> THEN sl ELSE WakeUpAll(WakeUpBody(sl, Head(log)), Tail(log))

\* What insert, remove and remove_rigid_body do to the bodies' other
\* components and to out: the bodies they wake are awake, the rest is untouched.
SelectFrame ==
  /\ sleeping' = WakeUpAll(sleeping, woken')
  /\ UNCHANGED <<rb_type, active_island_id, out>>

\* --------------------------------------------- select_active_interactions
\* Mutant: a sleeping endpoint excludes the joint whatever the body's type.
Qualifies_AnySleeping(joint) ==
  /\ is_dynamic(rb_type[joint.body1]) \/ is_dynamic(rb_type[joint.body2])
  /\ ~sleeping[joint.body1]
  /\ ~sleeping[joint.body2]

\* The condition under which a joint is pushed.
Qualifies(joint) ==
  /\ is_dynamic(rb_type[joint.body1]) \/ is_dynamic(rb_type[joint.body2])
  /\ ~is_dynamic(rb_type[joint.body1]) \/ ~sleeping[joint.body1]
  /\ ~is_dynamic(rb_type[joint.body2]) \/ ~sleeping[joint.body2]

\* Mutant: the island is always taken from body1.
IslandIndex_Body1(joint) == active_island_id[joint.body1]

IslandIndex(joint) ==
  IF ~is_dynamic(rb_type[joint.body1])
  THEN active_island_id[joint.body2]
  ELSE active_island_id[joint.body1]

\* for out_island in &mut out[..islands.num_islands()] { out_island.clear() }
ClearIslands(o, num_islands) ==
  [k \in 1..Len(o) |-> IF k <= num_islands THEN <<>> ELSE o[k]]

\* The scan over the edges from edge index i on, pushing into o.
RECURSIVE SelectLoop(_, _)
SelectLoop(o, i) ==
  IF i >= Len(edges)
  THEN o
  ELSE IF Qualifies(edges[i + 1].weight)
  THEN SelectLoop([o EXCEPT ![IslandIndex(edges[i + 1].weight) + 1] =
                              Append(@, i)], i + 1)
  ELSE SelectLoop(o, i + 1)

SelectActiveInteractions ==
  /\ out' = SelectLoop(ClearIslands(out, NumIslands), 0)
  /\ last' = [NoCall EXCEPT !.op = "select_active_interactions"]
  /\ ret' = None
  /\ woken' = <<>>
  /\ UNCHANGED <<joint_ids, nodes, edges, bodies, removed,
                 rb_type, sleeping, active_island_id>>

\* The island manager's wake_up called on a body by the simulation.
WakeUp(body) ==
  /\ ~bodies[body].deleted
  /\ sleeping' = WakeUpBody(sleeping, body)
  /\ woken' = <<body>>
  /\ last' = [NoCall EXCEPT !.op = "wake_up", !.body1 = body]
  /\ ret' = None
  /\ UNCHANGED <<joint_ids, nodes, edges, bodies, removed,
                 rb_type, active_island_id, out>>

\* ------------------------------------------------------------------ Next
InsertAny ==
  \E body1 \in Bodies, body2 \in Bodies, slot \in 0..(MaxInserts - 1) :
    Insert(body1, body2, slot) /\ SelectFrame

\* remove with a handle that is live.
RemoveLive ==
  \E handle \in Handles, wake_up \in BOOLEAN :
    contains(handle) /\ Remove(handle, wake_up) /\ SelectFrame

\* remove with a handle that is not live: stale, never allocated or invalid.
RemoveAbsent ==
  \E handle \in Handles, wake_up \in BOOLEAN :
    ~contains(handle) /\ Remove(handle, wake_up) /\ SelectFrame

RemoveRigidBodyAny == \E body \in Bodies : RemoveRigidBody(body) /\ SelectFrame

WakeUpAny == \E body \in Bodies : WakeUp(body)

Next == InsertAny \/ RemoveLive \/ RemoveRigidBodyAny

Spec == Init /\ [][Next]_vars

\* The same joint set, also called with handles that are not live.  To keep
\* the state space of the extra calls small the last body is deleted before
\* its first joint: the state Spec reaches by RemoveRigidBody(NumBodies).
InitProbe ==
  /\ joint_ids = ArenaNew
  /\ nodes = <<>>
  /\ edges = <<>>
  /\ bodies = [b \in Bodies |->
                 [deleted |-> (b = NumBodies), joint_graph_index |-> INVALID_U32]]
  /\ woken = <<>>
  /\ last = [NoCall EXCEPT !.op = "remove_rigid_body", !.body1 = NumBodies]
  /\ ret = None
  /\ removed = {}
  /\ rb_type = [b \in Bodies |-> "Dynamic"]
  /\ sleeping = [b \in Bodies |-> FALSE]
  /\ active_island_id = [b \in Bodies |-> 0]
  /\ out = StaleOut

NextProbe == InsertAny \/ RemoveLive \/ RemoveAbsent \/ RemoveRigidBodyAny

SpecProbe == InitProbe /\ [][NextProbe]_vars

\* The joint set of a simulation step: joints are inserted between bodies of
\* every type, sleeping or awake, in any island, bodies are woken, and the
\* active joints are selected.  The last body is deleted before its first
\* joint, as in InitProbe.
RigidBodyTypes == {"Dynamic", "Static", "Kinematic"}

InitSelect ==
  /\ joint_ids = ArenaNew
  /\ nodes = <<>>
  /\ edges = <<>>
  /\ bodies = [b \in Bodies |->
                 [deleted |-> (b = NumBodies), joint_graph_index |-> INVALID_U32]]
  /\ woken = <<>>
  /\ last = [NoCall EXCEPT !.op = "remove_rigid_body", !.body1 = NumBodies]
  /\ ret = None
  /\ removed = {}
  /\ rb_type \in [Bodies -> RigidBodyTypes]
  /\ sleeping \in [Bodies -> BOOLEAN]
  /\ active_island_id \in [Bodies -> 0..(NumIslands - 1)]
  /\ rb_type[NumBodies] = "Dynamic"
  /\ ~sleeping[NumBodies]
  /\ active_island_id[NumBodies] = 0
  /\ out = StaleOut

NextSelect == InsertAny \/ WakeUpAny \/ SelectActiveInteractions

SpecSelect == InitSelect /\ [][NextSelect]_vars

\* ================================================================ claims
LiveHandles == {h \in Handles : contains(h)}

\* The joints (edges) of the graph that reference a body.
JointsOf(body) ==
  {e \in 1..Len(edges) :
     edges[e].weight.body1 = body \/ edges[e].weight.body2 = body}

\* C1: bidirectional consistency.  After every call, every live handle
\* resolves to an edge whose joint carries that handle, and every edge
\* carries a live handle that resolves back to the edge's own index.
C1_BidirectionalConsistency ==
  /\ \A h \in LiveHandles :
       /\ ArenaGet(joint_ids, h)[1] < Len(edges)
       /\ edges[ArenaGet(joint_ids, h)[1] + 1].weight.handle = h
  /\ \A e \in 1..Len(edges) :
       /\ contains(edges[e].weight.handle)
       /\ ArenaGet(joint_ids, edges[e].weight.handle) = Some(e - 1)

\* A removal has relocated an edge: some joint sits at an edge index other
\* than the one it was inserted at, right after a successful remove.
C1_Witness ==
  /\ last.op = "remove"
  /\ ret # None
  /\ removed = {last.handle}
  /\ \E e \in 1..Len(edges) : edges[e].weight.handle.index # e - 1

\* The joints live in the set: the handles carried by the edges of the graph.
IsLive(h) == \E e \in 1..Len(edges) : edges[e].weight.handle = h

Range(f) == {f[k] : k \in DOMAIN f}

\* C2: handle uniqueness.  No two joints of the graph share a handle, and
\* the handle insert returns is carried by the new joint only.
C2_HandleUniqueness ==
  /\ \A e1, e2 \in 1..Len(edges) :
       e1 # e2 => edges[e1].weight.handle # edges[e2].weight.handle
  /\ last.op = "insert" =>
       /\ ret = Some(last.handle)
       /\ {e \in 1..Len(edges) : edges[e].weight.handle = last.handle}
            = {Len(edges)}

\* insert has reused a freed arena slot while another joint is live.
C2_Witness ==
  /\ last.op = "insert"
  /\ last.handle.generation > 0
  /\ Len(edges) >= 2

\* C3: a removed handle is permanently invalid.  In every state, get,
\* get_mut, contains and remove report absence for every handle removed so
\* far, and in every step a handle only moves Nonexistent -> Live -> Removed.
Status(h) ==
  IF contains(h) THEN "Live" ELSE IF h \in removed THEN "Removed" ELSE "Nonexistent"

C3_Absent ==
  \A h \in removed :
    /\ ~contains(h)
    /\ get(h) = None
    /\ get_mut(h) = None
    /\ remove_result(h) = None

C3_Lifecycle ==
  \A h \in Handles :
    \/ Status(h)' = Status(h)
    \/ Status(h) = "Nonexistent" /\ Status(h)' = "Live"
    \/ Status(h) = "Live" /\ Status(h)' = "Removed"

C3_RemovedPermanentlyInvalid == [](C3_Absent) /\ [][C3_Lifecycle]_vars

\* insert has reused the slot of a removed handle.
C3_Witness ==
  /\ last.op = "insert"
  /\ \E h \in removed : h.index = last.handle.index /\ contains(last.handle)

\* C4: relocation repair.  A successful remove(h) leaves every other live
\* joint retrievable by its handle with the payload it had before the call.
C4_Step ==
  (last'.op = "remove" /\ ret' # None) =>
    \A h \in LiveHandles \ {last'.handle} :
      /\ get(h) # None
      /\ get(h)[1].handle = h
      /\ get(h)' = get(h)

C4_RelocationRepair == [][C4_Step]_vars

\* The middle one of three joints was removed, the only removal so far: the
\* last edge was relocated into the freed edge slot.
C4_Witness ==
  /\ last.op = "remove"
  /\ last.handle = JointHandle(1, 0)
  /\ removed = {JointHandle(1, 0)}
  /\ Len(edges) = 2
  /\ edges[2].weight.handle = JointHandle(2, 0)

\* C5: cascading deletion completeness.  After remove_rigid_body for body
\* X no edge references X and no live handle resolves to a joint of X.
C5_CascadeComplete ==
  last.op = "remove_rigid_body" =>
    /\ JointsOf(last.body1) = {}
    /\ \A h \in LiveHandles :
         get(h) # None =>
           /\ get(h)[1].body1 # last.body1
           /\ get(h)[1].body2 # last.body1

\* C6: body back-reference consistency.  Every not-deleted body with a
\* valid cached joint_graph_index i has a node at i that carries the body.
C6_BackReference ==
  \A b \in Bodies :
    (~bodies[b].deleted /\ is_graph_index_valid(bodies[b].joint_graph_index)) =>
      node_weight(nodes, bodies[b].joint_graph_index) = Some(b)


\* A node was relocated into the slot remove_rigid_body freed, and its body
\* is still in the body set.
C6_Witness ==
  /\ last.op = "remove_rigid_body"
  /\ is_graph_index_valid(last.deleted_id)
  /\ \E b \in Bodies :
       ~bodies[b].deleted /\ bodies[b].joint_graph_index = last.deleted_id

\* C7: cascading deletion always wakes.  remove_rigid_body with a valid
\* index wakes body1 and body2 of every joint it removes, twice the number
\* of removed joints in all, and leaves one node fewer.
CascadeRemoved ==
  {e \in 1..Len(edges) : ~ArenaContains(joint_ids', edges[e].weight.handle)}

C7_Step ==
  (last'.op = "remove_rigid_body" /\ is_graph_index_valid(last'.deleted_id)) =>
    /\ \A e \in CascadeRemoved :
         \E k \in 1..(Len(woken') \div 2) :
           /\ woken'[2 * k - 1] = edges[e].weight.body1
           /\ woken'[2 * k] = edges[e].weight.body2
    /\ Len(woken') = 2 * Cardinality(CascadeRemoved)
    /\ Len(nodes') = Len(nodes) - 1

C7_CascadeWakes == [][C7_Step]_vars

\* A cascade removed at least two joints and woke a partner body.
C7_Witness ==
  /\ last.op = "remove_rigid_body"
  /\ Len(woken) >= 4
  /\ \E k \in 1..Len(woken) : woken[k] # last.body1

\* C8: explicit remove wakes exactly on request.  After a successful
\* remove the wake-ups are body1 then body2 of the removed joint if wake_up
\* was set, and none otherwise.
C8_RemoveWakes ==
  (last.op = "remove" /\ ret # None) =>
    woken = IF last.wake_up THEN <<ret[1].body1, ret[1].body2>> ELSE <<>>

\* A joint between two different bodies was removed with wake_up set.
C8_Witness ==
  /\ last.op = "remove"
  /\ last.wake_up
  /\ ret # None
  /\ ret[1].body1 # ret[1].body2
  /\ Len(woken) = 2

\* C9: idempotent absence.  remove(h) on a live handle returns the joint
\* stored under h, and a remove(h) that immediately follows returns absence.
C9_Step ==
  /\ (last'.op = "remove" /\ IsLive(last'.handle)) =>
       /\ ret' # None
       /\ ret' = get(last'.handle)
       /\ ret'[1].handle = last'.handle
  /\ (last.op = "remove" /\ ret # None
        /\ last'.op = "remove" /\ last'.handle = last.handle) =>
       ret' = None

C9_IdempotentAbsence == [][C9_Step]_vars

\* The same handle was removed a second time.
C9_Witness ==
  /\ last.op = "remove"
  /\ last.handle \in removed
  /\ ret = None

\* C10: absent handles are silent no-ops.  For a handle that is not live,
\* get, get_mut, contains and remove report absence, and such a remove
\* changes neither the arena, the graph nor the bodies and wakes nobody.
C10_Lookups ==
  \A h \in Handles :
    ~IsLive(h) =>
      /\ ~contains(h)
      /\ get(h) = None
      /\ get_mut(h) = None
      /\ remove_result(h) = None

C10_Step ==
  (last'.op = "remove" /\ ~IsLive(last'.handle)) =>
    /\ ret' = None
    /\ woken' = <<>>
    /\ UNCHANGED <<joint_ids, nodes, edges, bodies>>

C10_AbsentNoOp == [](C10_Lookups) /\ [][C10_Step]_vars

\* remove with wake_up set was called with a stale handle whose slot has
\* been reused by a live joint.
C10_Witness ==
  /\ last.op = "remove"
  /\ last.wake_up
  /\ last.handle \in removed
  /\ \E h \in LiveHandles : h.index = last.handle.index

\* C11: island selection membership.  After select_active_interactions an
\* edge index is in the buckets 0..island_count exactly once if its joint has
\* a dynamic endpoint and no dynamic endpoint that sleeps, and in none of
\* them otherwise, whatever the buckets held before; a select that follows
\* the wake-up of a body includes the joints that only that body kept out.
Dynamic(b) == rb_type[b] = "Dynamic"

Active(joint) ==
  /\ \E b \in {joint.body1, joint.body2} : Dynamic(b)
  /\ \A b \in {joint.body1, joint.body2} : Dynamic(b) => ~sleeping[b]

\* The places <<bucket, position>> of the buckets 0..island_count that hold
\* edge index i.
Places(o, i) ==
  UNION {{<<k, p>> : p \in {q \in 1..Len(o[k]) : o[k][q] = i}} :
           k \in 1..NumIslands}

C11_Membership ==
  last.op = "select_active_interactions" =>
    /\ \A i \in 0..(Len(edges) - 1) :
         Cardinality(Places(out, i)) =
           IF Active(edges[i + 1].weight) THEN 1 ELSE 0
    /\ \A k \in 1..NumIslands : \A p \in 1..Len(out[k]) :
         out[k][p] \in 0..(Len(edges) - 1)

C11_WakeStep ==
  (last.op = "wake_up" /\ last'.op = "select_active_interactions") =>
    \A i \in 0..(Len(edges) - 1) :
      LET joint == edges[i + 1].weight
          others == {joint.body1, joint.body2} \ {last.body1}
      IN (/\ last.body1 \in {joint.body1, joint.body2}
          /\ \E b \in {joint.body1, joint.body2} : Dynamic(b)
          /\ \A b \in others : Dynamic(b) => ~sleeping[b])
           => Cardinality(Places(out', i)) = 1

C11_SelectionMembership == [](C11_Membership) /\ [][C11_WakeStep]_vars

\* A select filed one joint and left out another whose dynamic endpoint
\* sleeps.
C11_Witness ==
  /\ last.op = "select_active_interactions"
  /\ \E i, j \in 0..(Len(edges) - 1) :
       /\ Places(out, i) # {}
       /\ Places(out, j) = {}
       /\ \E b \in {edges[j + 1].weight.body1, edges[j + 1].weight.body2} :
            Dynamic(b) /\ sleeping[b]

\* C12: island selection bucket.  Every index filed in bucket k belongs to
\* a joint whose body1 is dynamic and in island k, or whose body1 is not
\* dynamic and whose body2 is dynamic and in island k; the indices of a
\* bucket are in ascending edge order.
C12_SelectionBucket ==
  last.op = "select_active_interactions" =>
    \A k \in 1..NumIslands :
      /\ \A p \in 1..Len(out[k]) :
           /\ out[k][p] < Len(edges)
           /\ LET joint == edges[out[k][p] + 1].weight
              IN IF Dynamic(joint.body1)
                 THEN active_island_id[joint.body1] = k - 1
                 ELSE /\ Dynamic(joint.body2)
                      /\ active_island_id[joint.body2] = k - 1
      /\ \A p, q \in 1..Len(out[k]) : p < q => out[k][p] < out[k][q]

\* A joint from a non-dynamic body1 to a dynamic body2 of another island
\* was filed under body2's island, after an earlier joint of the same bucket.
C12_Witness ==
  /\ last.op = "select_active_interactions"
  /\ \E k \in 1..NumIslands :
       /\ Len(out[k]) >= 2
       /\ LET joint == edges[out[k][2] + 1].weight
          IN /\ ~Dynamic(joint.body1)
             /\ active_island_id[joint.body1] # k - 1
             /\ active_island_id[joint.body2] = k - 1

\* C13: remove_rigid_body with the sentinel index is a no-op.  The arena,
\* the nodes, the edges and every body's cached graph index are unchanged
\* and no body is woken.
C13_Step ==
  (last'.op = "remove_rigid_body" /\ last'.deleted_id = INVALID_U32) =>
    /\ UNCHANGED <<joint_ids, nodes, edges>>
    /\ \A b \in Bodies :
         bodies'[b].joint_graph_index = bodies[b].joint_graph_index
    /\ woken' = <<>>

C13_SentinelNoOp == [][C13_Step]_vars

\* A body that never had a joint was deleted while the graph held joints
\* of other bodies.
C13_Witness ==
  /\ last.op = "remove_rigid_body"
  /\ last.deleted_id = INVALID_U32
  /\ Len(edges) >= 1
  /\ Len(nodes) >= 2

\* C14: a body without joints has no graph index.  Every not-deleted body
\* that no live joint references has the sentinel as cached
\* joint_graph_index and no node in the graph.
C14_NoIndexWithoutJoint ==
  \A b \in Bodies :
    (~bodies[b].deleted /\ JointsOf(b) = {}) =>
      /\ ~is_graph_index_valid(bodies[b].joint_graph_index)
      /\ \A n \in 1..Len(nodes) : nodes[n] # b

\* C15: node removal only after the incident edges are cleared.  When
\* remove_rigid_body is called with a valid index i, then whatever the order
\* in which the incident joints were collected, the graph that remove_node(i)
\* is called on has no edge with node i as an endpoint.
C15_Step ==
  (last'.op = "remove_rigid_body" /\ is_graph_index_valid(last'.deleted_id)) =>
    \A to_delete \in Orders(interactions_with(nodes, edges, last'.deleted_id)) :
      IncidentEdges(CascadeLoop([ids |-> joint_ids, es |-> edges,
                                 log |-> <<>>], to_delete).es,
                    last'.deleted_id) = {}

C15_NodeRemovalAfterEdges == [][C15_Step]_vars

\* A cascade deleted two joints of the body and another joint survived it.
C15_Witness ==
  /\ last.op = "remove_rigid_body"
  /\ is_graph_index_valid(last.deleted_id)
  /\ Len(woken) = 4
  /\ Len(edges) = 1

\* C16: insert always succeeds and round-trips.  After insert(a, b) returned
\* h, get(h) is the joint (a, b, h); one edge was appended; one node was
\* appended per endpoint whose cached index was invalid, it carries that
\* endpoint's body and its index is written back to the body; an endpoint
\* with a valid cached index uses that index, and no body with a valid
\* cached index had its index or any existing node changed.
Invalid(b) == bodies[b].joint_graph_index = INVALID_U32

C16_Step ==
  last'.op = "insert" =>
    LET a == last'.body1
        b == last'.body2
        h == last'.handle
        new == edges'[Len(edges')]
        added == (IF Invalid(a) THEN 1 ELSE 0) + (IF Invalid(b) THEN 1 ELSE 0)
    IN /\ ret' = Some(h)
       /\ ArenaContains(joint_ids', h)
       /\ edge_weight(edges', ArenaGet(joint_ids', h)[1])
            = Some([body1 |-> a, body2 |-> b, handle |-> h])
       /\ Len(edges') = Len(edges) + 1
       /\ SubSeq(edges', 1, Len(edges)) = edges
       /\ Len(nodes') = Len(nodes) + added
       /\ SubSeq(nodes', 1, Len(nodes)) = nodes
       /\ IF Invalid(a)
          THEN new.node[1] = Len(nodes) /\ nodes'[new.node[1] + 1] = a
          ELSE new.node[1] = bodies[a].joint_graph_index
       /\ IF Invalid(b)
          THEN new.node[2] = Len(nodes') - 1 /\ nodes'[new.node[2] + 1] = b
          ELSE new.node[2] = bodies[b].joint_graph_index
       /\ \A x \in {a, b} :
            Invalid(x) =>
              /\ bodies'[x].joint_graph_index \in {new.node[1], new.node[2]}
              /\ bodies'[x].joint_graph_index >= Len(nodes)
              /\ nodes'[bodies'[x].joint_graph_index + 1] = x
       /\ \A x \in Bodies :
            (~Invalid(x) \/ x \notin {a, b}) => bodies'[x] = bodies[x]

C16_InsertRoundTrip == [][C16_Step]_vars

\* A joint was inserted between a body that already had a node and a body
\* that had none: the second endpoint is the node appended by this insert.
C16_Witness ==
  /\ last.op = "insert"
  /\ removed = {}
  /\ last.body1 # last.body2
  /\ Len(edges) >= 2
  /\ edges[Len(edges)].node[2] = Len(nodes) - 1
  /\ \E e \in 1..(Len(edges) - 1) :
       edges[Len(edges)].node[1] \in {edges[e].node[1], edges[e].node[2]}
  /\ \A e \in 1..(Len(edges) - 1) :
       (Len(nodes) - 1) \notin {edges[e].node[1], edges[e].node[2]}

\* C17: one node per body.  No two nodes of the graph carry the same body.
C17_OneNodePerBody ==
  \A i, j \in 1..Len(nodes) : i # j => nodes[i] # nodes[j]

\* C18: endpoint consistency.  For every edge the payload of its first
\* endpoint node is the joint's body1 and that of its second endpoint node
\* the joint's body2; a successful remove with wake_up set wakes exactly
\* body1 and body2 of the removed joint.
C18_EndpointConsistency ==
  /\ \A e \in 1..Len(edges) :
       /\ node_weight(nodes, edges[e].node[1]) = Some(edges[e].weight.body1)
       /\ node_weight(nodes, edges[e].node[2]) = Some(edges[e].weight.body2)
  /\ (last.op = "remove" /\ last.wake_up /\ ret # None) =>
       /\ Len(woken) = 2
       /\ woken[1] = ret[1].body1
       /\ woken[2] = ret[1].body2

\* remove_rigid_body relocated a node that has an edge: the edge now names
\* the freed index as an endpoint.
C18_Witness ==
  /\ last.op = "remove_rigid_body"
  /\ is_graph_index_valid(last.deleted_id)
  /\ \E e \in 1..Len(edges) :
       last.deleted_id \in {edges[e].node[1], edges[e].node[2]}

\* C19: cascading deletion removes only incident joints.  After
\* remove_rigid_body for body X every joint that was live before the call
\* and has neither body1 nor body2 equal to X is still retrieved by its
\* handle, with the payload it had.
C19_Step ==
  last'.op = "remove_rigid_body" =>
    \A h \in LiveHandles :
      (/\ get(h) # None
       /\ get(h)[1].body1 # last'.body1
       /\ get(h)[1].body2 # last'.body1) =>
        /\ ArenaContains(joint_ids', h)
        /\ edge_weight(edges', ArenaGet(joint_ids', h)[1]) = get(h)

C19_CascadeOnlyIncident == [][C19_Step]_vars

\* The only removals so far are those of this cascade, and a surviving
\* joint sits at another edge index than the one it was inserted at.
C19_Witness ==
  /\ last.op = "remove_rigid_body"
  /\ Len(woken) >= 2
  /\ 2 * Cardinality(removed) = Len(woken)
  /\ \E e \in 1..Len(edges) :
       /\ edges[e].weight.handle.index # e - 1
       /\ last.body1 \notin {edges[e].weight.body1, edges[e].weight.body2}

\* C20: count agreement.  len() is the number of live handles, is_empty()
\* holds iff there is none, contains(h) holds iff get(h) returns a joint,
\* and iter() yields every live handle exactly once, with the joint get
\* returns for it.
C20_CountAgreement ==
  /\ len = Cardinality({h \in Handles : ArenaContains(joint_ids, h)})
  /\ len = ArenaLen(joint_ids)
  /\ is_empty <=> {h \in Handles : ArenaContains(joint_ids, h)} = {}
  /\ \A h \in Handles : contains(h) <=> get(h) # None
  /\ \A k \in 1..Len(iter) :
       /\ ArenaContains(joint_ids, iter[k][1])
       /\ get(iter[k][1]) = Some(iter[k][2])
  /\ \A h \in Handles :
       ArenaContains(joint_ids, h) =>
         Cardinality({k \in 1..Len(iter) : iter[k][1] = h}) = 1

\* A remove left a freed slot in the arena while other joints are live.
C20_Witness ==
  /\ last.op = "remove"
  /\ ret # None
  /\ Len(edges) >= 1
  /\ Len(joint_ids) > Len(edges)

====
